---- MODULE Spec2Model ----
(***************************************************************************)
(* Model of the transcode job lifecycle of server/server.js: the POST      *)
(* /upload handler, the ffprobe callback, the ffmpeg 'progress', 'error'   *)
(* and 'end' handlers and the GET /status/:id handler.                     *)
(*                                                                         *)
(* Node runs every handler to completion, so each handler is one action.   *)
(* Numbers with a fractional part (seconds, container duration, direct     *)
(* percent) are kept in tenths.  fluent-ffmpeg delivers, for one command,  *)
(* any number of 'progress' events followed by exactly one of 'end' and    *)
(* 'error'; ffprobe calls its callback once.                               *)
(***************************************************************************)
EXTENDS Integers, Sequences, FiniteSets, TLC

\* ------------------------------------------------------------------ bounds
MaxJobs == 2
MaxReq == 3
MaxProgress == 2

VARIABLES
    progressStore,  \* own properties of the progressStore object: id -> record
    job,            \* per accepted upload, the variables its closures capture
    uploads,        \* files present in UPLOAD_DIR: path -> content
    dashDirs,       \* directories under DASH_ROOT: path -> ids of the jobs
                    \* whose encoder wrote files into it
    unlinked,       \* path -> number of successful fs.unlinkSync calls
    response,       \* the HTTP exchange answered last: the request's kind,
                    \* id and whether it carried a file, and the response
    nreq,           \* number of HTTP requests answered
    nprogress,      \* number of 'progress' events delivered
    nupload,        \* number of uploads accepted
    clock           \* value the next new Date() returns

vars == <<progressStore, job, uploads, dashDirs, unlinked, response, nreq,
          nprogress, nupload, clock>>

\* ------------------------------------------------------ values and inputs
Uuid(i) == "u" \o ToString(i)

\* the values uuidv4() returns: the n-th call returns a value no earlier
\* call returned
UUIDs == { Uuid(i) : i \in 1..MaxJobs }

\* property names every object literal inherits from Object.prototype
ObjectPrototypeKeys == {"__proto__"}

\* the ids a client may put in GET /status/:id
QueryIds == UUIDs \cup ObjectPrototypeKeys \cup {"nope"}

\* what a property of Object.prototype serialises to in res.json
ObjectPrototype(key) == [type |-> "object"]

\* an uploaded file: whether ffprobe can read it, the codec_type of each of
\* its streams and format.duration in tenths of a second (0: not reported)
Contents == {
    [readable |-> FALSE, streams |-> <<>>, duration |-> 0],
    [readable |-> TRUE, streams |-> <<"subtitle">>, duration |-> 90],
    [readable |-> TRUE, streams |-> <<"video", "audio">>, duration |-> 90],
    [readable |-> TRUE, streams |-> <<"video">>, duration |-> 90],
    [readable |-> TRUE, streams |-> <<"audio">>, duration |-> 0] }

\* progress objects: timemark is the sequence of fields between the colons
\* (hours, minutes, tenths of seconds), percent is in tenths
ProgressEvents == {
    [timemark |-> <<0, 0, 55>>, percent |-> 505],
    [timemark |-> <<0, 0, 20>>],
    [timemark |-> <<0, 1, 0>>],
    [timemark |-> <<0, 50>>, percent |-> 700],
    [percent |-> 1505],
    [percent |-> -15],
    [frames |-> 1] }

ErrorMessages == {"ffmpeg exited with code 1"}

\* ------------------------------------------------------------------ paths
UPLOAD_DIR == <<"uploads">>
DASH_ROOT == <<"public", "dash">>

\* path.join(dir, name)
PathJoin(dir, name) == Append(dir, name)

\* the directory a file path lies in
Dirname(p) == SubSeq(p, 1, Len(p) - 1)

\* multer's filename: Date.now() + '-' + random, one new name per upload
Filename(n) == "f" \o ToString(n)

\* ----------------------------------------------------------------- helpers
Min(a, b) == IF a < b THEN a ELSE b

\* Math.floor of a number kept in tenths
Floor(t) == t \div 10

\* obj[key] = value on a record
SetField(rec, key, value) ==
    [f \in DOMAIN rec \cup {key} |-> IF f = key THEN value ELSE rec[f]]

\* the property lookup progressStore[id]: an own property, else a property
\* inherited from Object.prototype, else undefined
Undefined == [type |-> "undefined"]

Lookup(store, id) ==
    IF id \in DOMAIN store THEN store[id]
    ELSE IF id \in ObjectPrototypeKeys THEN ObjectPrototype(id)
    ELSE Undefined

\* variant: the cleanup empties the upload directory
UnlinkAll(files, p) == [q \in {} |-> files[q]]

\* try { fs.unlinkSync(p) } catch (e) {}: the files left
Unlink(files, p) == [q \in DOMAIN files \ {p} |-> files[q]]

\* the unlink counters after try { fs.unlinkSync(p) } catch (e) {}
CountUnlink(files, counts, p) ==
    IF p \in DOMAIN files
    THEN [counts EXCEPT ![p] = @ + 1]
    ELSE counts

\* variant: any stream at all counts as a stream of the type asked for
HasStreamAny(streams, type) == Len(streams) > 0

\* streams.some(s => s.codec_type === type)
HasStream(streams, type) == \E i \in 1..Len(streams) : streams[i] = type

\* adaptationSetParts.join(' ')
RECURSIVE Join(_, _)
Join(parts, sep) ==
    IF Len(parts) = 0 THEN ""
    ELSE IF Len(parts) = 1 THEN parts[1]
    ELSE parts[1] \o sep \o Join(Tail(parts), sep)

\* variant: the entries are joined with a comma
adaptationSetsArgComma(hasVideo, hasAudio) ==
    Join((IF hasVideo THEN <<"id=0,streams=v">> ELSE <<>>)
         \o (IF hasAudio THEN <<"id=1,streams=a">> ELSE <<>>), ",")

adaptationSetsArg(hasVideo, hasAudio) ==
    Join((IF hasVideo THEN <<"id=0,streams=v">> ELSE <<>>)
         \o (IF hasAudio THEN <<"id=1,streams=a">> ELSE <<>>), " ")

\* variant: the percent computed from the time marker is not capped
InterpretUncapped(duration, progress) ==
    IF duration # 0 /\ "timemark" \in DOMAIN progress
    THEN IF Len(progress.timemark) = 3
         THEN <<((progress.timemark[1] * 36000
                  + progress.timemark[2] * 600
                  + progress.timemark[3]) * 100) \div duration>>
         ELSE <<>>
    ELSE IF "percent" \in DOMAIN progress
         THEN <<Min(100, Floor(progress.percent))>>
         ELSE <<>>

\* the percent a progress object makes the handler store: <<p>>, or <<>>
\* when the handler leaves percent alone
Interpret(duration, progress) ==
    IF duration # 0 /\ "timemark" \in DOMAIN progress
    THEN IF Len(progress.timemark) = 3
         THEN <<Min(100, ((progress.timemark[1] * 36000
                           + progress.timemark[2] * 600
                           + progress.timemark[3]) * 100) \div duration)>>
         ELSE <<>>
    ELSE IF "percent" \in DOMAIN progress
         THEN <<Min(100, Floor(progress.percent))>>
         ELSE <<>>

\* variant: an event that yields no percent resets the stored percent
ProgressRecordReset(rec, duration, progress) ==
    LET p == Interpret(duration, progress)
    IN  SetField(SetField(rec, "percent", IF p = <<>> THEN 0 ELSE p[1]),
                 "raw", progress)

\* the record the 'progress' handler leaves behind
ProgressRecord(rec, duration, progress) ==
    LET p == Interpret(duration, progress)
    IN  SetField(IF p = <<>> THEN rec ELSE SetField(rec, "percent", p[1]),
                 "raw", progress)

\* variant: the initial record already says processing
QueuedRecordStarted(t) ==
    [status |-> "processing", percent |-> 0, createdAt |-> t]

\* the records the handlers assign
QueuedRecord(t) == [status |-> "queued", percent |-> 0, createdAt |-> t]

\* variant: the probe failure leaves the status as it was
ProbeErrorRecordQueued ==
    [status |-> "queued", error |-> "Could not read video metadata."]

ProbeErrorRecord ==
    [status |-> "error", error |-> "Could not read video metadata."]

\* variant: the no-stream branch removes the file but leaves the job queued
NoStreamsRecordQueued == [status |-> "queued", percent |-> 0]

\* variant: the no-stream record keeps the message out
NoStreamsRecordNoMessage == [status |-> "error"]

NoStreamsRecord ==
    [status |-> "error", error |-> "Input has no audio or video streams."]

\* variant: the processing record carries no percent
ProcessingRecordNoPercent(t) == [status |-> "processing", startedAt |-> t]

ProcessingRecord(t) == [status |-> "processing", percent |-> 0, startedAt |-> t]

\* variant: the encoder failure is stored under a status of its own
ErrorRecordFailed(msg) == [status |-> "failed", error |-> msg]

ErrorRecord(msg) == [status |-> "error", error |-> msg]

ReadyRecord(t) == [status |-> "ready", percent |-> 100, finishedAt |-> t]

\* variant: the id is left out of the output directory
OutDirShared(id) == DASH_ROOT

\* the output directory of a job
OutDir(id) == PathJoin(DASH_ROOT, id)

\* -------------------------------------------------------------------- Init
Init ==
    /\ progressStore = [id \in {} |-> ProbeErrorRecord]
    /\ job = [id \in {} |-> ProbeErrorRecord]
    /\ uploads = [p \in {} |-> 0]
    /\ dashDirs = [p \in {} |-> {}]
    /\ unlinked = [p \in {} |-> 0]
    /\ response = [kind |-> "none", hasFile |-> FALSE, code |-> 0, id |-> "",
                   body |-> Undefined]
    /\ nreq = 0
    /\ nprogress = 0
    /\ nupload = 0
    /\ clock = 1

\* ----------------------------------------------------------------- actions
\* variant: the output directory is made before the file check
UploadNoFileAfterMkdir ==
    /\ nreq < MaxReq
    /\ nreq' = nreq + 1
    /\ dashDirs' = SetField(dashDirs, PathJoin(DASH_ROOT, Uuid(nupload + 1)), {})
    /\ response' = [kind |-> "upload", hasFile |-> FALSE, code |-> 400,
                    id |-> "",
                    body |-> [error |-> "no file uploaded (field name: file)"]]
    /\ UNCHANGED <<progressStore, job, uploads, unlinked,
                   nprogress, nupload, clock>>

\* POST /upload without a file payload (line 59)
UploadNoFile ==
    /\ nreq < MaxReq
    /\ nreq' = nreq + 1
    /\ response' = [kind |-> "upload", hasFile |-> FALSE, code |-> 400,
                    id |-> "",
                    body |-> [error |-> "no file uploaded (field name: file)"]]
    /\ UNCHANGED <<progressStore, job, uploads, dashDirs, unlinked,
                   nprogress, nupload, clock>>

\* POST /upload with a file: multer stores the payload, the handler makes the
\* output directory and the queued record, starts ffprobe and responds
Upload(content) ==
    LET inputPath == PathJoin(UPLOAD_DIR, Filename(nupload + 1))
        id == Uuid(nupload + 1)
        outDir == OutDir(id)
    IN  /\ nreq < MaxReq
        /\ nupload < MaxJobs
        /\ nupload' = nupload + 1
        /\ uploads' = SetField(uploads, inputPath, content)
        /\ unlinked' = SetField(unlinked, inputPath, 0)
        /\ dashDirs' = IF outDir \in DOMAIN dashDirs THEN dashDirs
                       ELSE SetField(dashDirs, outDir, {})
        /\ progressStore' = SetField(progressStore, id, QueuedRecord(clock))
        /\ clock' = clock + 1
        /\ job' = SetField(job, id,
                     [file |-> content, inputPath |-> inputPath,
                      outDir |-> outDir,
                      probe |-> "pending", duration |-> 0,
                      hasVideo |-> FALSE, hasAudio |-> FALSE,
                      encoder |-> "none", runs |-> 0,
                      manifestPath |-> <<>>, adaptationSets |-> ""])
        /\ nreq' = nreq + 1
        /\ response' = [kind |-> "upload", hasFile |-> TRUE, code |-> 200,
                        id |-> id,
                        body |-> [id |-> id,
                                  manifestUrl |-> <<"dash", id, "manifest.mpd">>,
                                  statusUrl |-> <<"status", id>>]]
        /\ UNCHANGED nprogress

\* the ffprobe callback of job id (lines 70-181)
ProbeCallback(id) ==
    LET j == job[id]
        readable == j.inputPath \in DOMAIN uploads
                    /\ uploads[j.inputPath].readable
        metadata == uploads[j.inputPath]
        hasVideo == HasStream(metadata.streams, "video")
        hasAudio == HasStream(metadata.streams, "audio")
        manifestPath == PathJoin(j.outDir, "manifest.mpd")
    IN  /\ j.probe = "pending"
        /\ IF ~readable
           THEN /\ progressStore' = SetField(progressStore, id, ProbeErrorRecord)
                /\ job' = [job EXCEPT ![id].probe = "done"]
                /\ UNCHANGED <<uploads, unlinked, clock>>
           ELSE IF ~hasVideo /\ ~hasAudio
           THEN /\ progressStore' = SetField(progressStore, id, NoStreamsRecord)
                /\ uploads' = Unlink(uploads, j.inputPath)
                /\ unlinked' = CountUnlink(uploads, unlinked, j.inputPath)
                /\ job' = [job EXCEPT ![id].probe = "done",
                                      ![id].duration = metadata.duration,
                                      ![id].hasVideo = hasVideo,
                                      ![id].hasAudio = hasAudio]
                /\ UNCHANGED clock
           ELSE /\ progressStore' =
                       SetField(progressStore, id, ProcessingRecord(clock))
                /\ clock' = clock + 1
                /\ job' = [job EXCEPT ![id].probe = "done",
                                      ![id].duration = metadata.duration,
                                      ![id].hasVideo = hasVideo,
                                      ![id].hasAudio = hasAudio,
                                      ![id].manifestPath = manifestPath,
                                      ![id].adaptationSets =
                                          adaptationSetsArg(hasVideo, hasAudio),
                                      ![id].encoder = "running",
                                      ![id].runs = @ + 1]
                /\ UNCHANGED <<uploads, unlinked>>
        /\ UNCHANGED <<dashDirs, response, nreq, nprogress, nupload>>

\* the files ffmpeg has written when it reports progress or ends
EncoderWrites(dirs, id) ==
    LET d == Dirname(job[id].manifestPath)
    IN  IF d \in DOMAIN dirs THEN [dirs EXCEPT ![d] = @ \cup {id}] ELSE dirs

\* variant: progress events still arrive after the command has finished
OnProgressAnytime(id, progress) ==
    /\ job[id].encoder # "none"
    /\ nprogress < MaxProgress
    /\ nprogress' = nprogress + 1
    /\ progressStore' = [progressStore EXCEPT
                            ![id] = ProgressRecord(@, job[id].duration, progress)]
    /\ dashDirs' = EncoderWrites(dashDirs, id)
    /\ UNCHANGED <<job, uploads, unlinked, response, nreq, nupload, clock>>

\* the 'progress' handler of job id (lines 153-167)
OnProgress(id, progress) ==
    /\ job[id].encoder = "running"
    /\ nprogress < MaxProgress
    /\ nprogress' = nprogress + 1
    /\ progressStore' = [progressStore EXCEPT
                            ![id] = ProgressRecord(@, job[id].duration, progress)]
    /\ dashDirs' = EncoderWrites(dashDirs, id)
    /\ UNCHANGED <<job, uploads, unlinked, response, nreq, nupload, clock>>

\* the 'error' handler of job id (lines 168-174)
OnError(id, msg) ==
    /\ job[id].encoder = "running"
    /\ progressStore' = SetField(progressStore, id, ErrorRecord(msg))
    /\ uploads' = Unlink(uploads, job[id].inputPath)
    /\ unlinked' = CountUnlink(uploads, unlinked, job[id].inputPath)
    /\ job' = [job EXCEPT ![id].encoder = "done"]
    /\ UNCHANGED <<dashDirs, response, nreq, nprogress, nupload, clock>>

\* variant: 'end' patches the record and keeps the percent it finds
OnEndKeepPercent(id) ==
    /\ job[id].encoder = "running"
    /\ progressStore' = [progressStore EXCEPT
                            ![id] = SetField(SetField(@, "status", "ready"),
                                             "finishedAt", clock)]
    /\ clock' = clock + 1
    /\ uploads' = Unlink(uploads, job[id].inputPath)
    /\ unlinked' = CountUnlink(uploads, unlinked, job[id].inputPath)
    /\ dashDirs' = EncoderWrites(dashDirs, id)
    /\ job' = [job EXCEPT ![id].encoder = "done"]
    /\ UNCHANGED <<response, nreq, nprogress, nupload>>

\* the 'end' handler of job id (lines 175-179)
OnEnd(id) ==
    /\ job[id].encoder = "running"
    /\ progressStore' = SetField(progressStore, id, ReadyRecord(clock))
    /\ clock' = clock + 1
    /\ uploads' = Unlink(uploads, job[id].inputPath)
    /\ unlinked' = CountUnlink(uploads, unlinked, job[id].inputPath)
    /\ dashDirs' = EncoderWrites(dashDirs, id)
    /\ job' = [job EXCEPT ![id].encoder = "done"]
    /\ UNCHANGED <<response, nreq, nprogress, nupload>>

\* GET /status/:id (lines 192-197)
Status(id) ==
    LET status == Lookup(progressStore, id)
    IN  /\ nreq < MaxReq
        /\ nreq' = nreq + 1
        /\ response' = IF status = Undefined
                       THEN [kind |-> "status", hasFile |-> FALSE,
                             code |-> 404, id |-> id,
                             body |-> [error |-> "id not found"]]
                       ELSE [kind |-> "status", hasFile |-> FALSE,
                             code |-> 200, id |-> id, body |-> status]
        /\ UNCHANGED <<progressStore, job, uploads, dashDirs, unlinked,
                       nprogress, nupload, clock>>

Next ==
    \/ UploadNoFile
    \/ \E content \in Contents : Upload(content)
    \/ \E id \in DOMAIN job : ProbeCallback(id)
    \/ \E id \in DOMAIN job, progress \in ProgressEvents : OnProgress(id, progress)
    \/ \E id \in DOMAIN job, msg \in ErrorMessages : OnError(id, msg)
    \/ \E id \in DOMAIN job : OnEnd(id)
    \/ \E id \in QueryIds : Status(id)

Spec == Init /\ [][Next]_vars

\* ffprobe delivers the result of job id
ProbeResult(id) == id \in DOMAIN job /\ ProbeCallback(id)

\* the ffmpeg process of job id exits: fluent-ffmpeg emits 'end' or 'error'
EncoderExit(id) ==
    /\ id \in DOMAIN job
    /\ OnEnd(id) \/ \E msg \in ErrorMessages : OnError(id, msg)

\* the progress objects of the runs followed to their end: one that gives a
\* percent and one that gives none
JobProgressEvents ==
    { [timemark |-> <<0, 0, 55>>, percent |-> 505], [frames |-> 1] }

\* the steps that act on jobs: accepted uploads and the callbacks; status
\* queries and rejected uploads change the response only
JobNext ==
    \/ \E content \in Contents : Upload(content)
    \/ \E id \in DOMAIN job : ProbeCallback(id)
    \/ \E id \in DOMAIN job, progress \in JobProgressEvents :
           OnProgress(id, progress)
    \/ \E id \in DOMAIN job, msg \in ErrorMessages : OnError(id, msg)
    \/ \E id \in DOMAIN job : OnEnd(id)

\* the event loop runs a pending ffprobe callback and, once the ffmpeg
\* process has exited, its 'end' or 'error' handler
FairSpec ==
    /\ Init /\ [][JobNext]_vars
    /\ \A id \in UUIDs : WF_vars(ProbeResult(id)) /\ WF_vars(EncoderExit(id))

\* ------------------------------------------------------------- properties
Terminal == {"ready", "error"}

\* the ids the upload handler has returned so far
Issued == { Uuid(i) : i \in 1..nupload }

\* the file has neither a video nor an audio stream, or cannot be probed
Unusable(file) ==
    \/ ~file.readable
    \/ \A i \in 1..Len(file.streams) : file.streams[i] \notin {"video", "audio"}

\* C1: while a job is processing its stored percent never decreases.
C1_PercentNeverDecreases ==
    [][\A id \in DOMAIN progressStore :
          (progressStore[id].status = "processing"
           /\ progressStore'[id].status = "processing")
          => progressStore'[id].percent >= progressStore[id].percent]_vars

\* C2: a job in a terminal state has had its uploaded file removed, by
\* exactly one successful unlink.
C2_TerminalFileRemovedOnce ==
    \A id \in DOMAIN job :
        progressStore[id].status \in Terminal
        => /\ job[id].inputPath \notin DOMAIN uploads
           /\ unlinked[job[id].inputPath] = 1

\* C3: a record is created queued, every status is one of the four, and a
\* status changes only queued -> processing, queued -> error,
\* processing -> ready or processing -> error.
C3_StatusTransitions ==
    [][\A id \in DOMAIN progressStore' :
          /\ progressStore'[id].status
                 \in {"queued", "processing", "ready", "error"}
          /\ IF id \in DOMAIN progressStore
             THEN \/ progressStore'[id].status = progressStore[id].status
                  \/ <<progressStore[id].status, progressStore'[id].status>>
                         \in {<<"queued", "processing">>, <<"queued", "error">>,
                              <<"processing", "ready">>,
                              <<"processing", "error">>}
             ELSE progressStore'[id].status = "queued"]_vars

C3_Witness ==
    /\ "u1" \in DOMAIN progressStore /\ progressStore["u1"].status = "ready"
    /\ "u2" \in DOMAIN progressStore /\ progressStore["u2"].status = "error"
    /\ job["u2"].encoder = "done"

\* C4: once a job's record says ready or error, no step changes that record.
C4_TerminalImmutable ==
    [][\A id \in DOMAIN progressStore :
          progressStore[id].status \in Terminal
          => progressStore'[id] = progressStore[id]]_vars

\* a job finished and, after that, another job started and made progress
C4_Witness ==
    \E a, b \in DOMAIN progressStore :
        /\ progressStore[a].status = "ready"
        /\ progressStore[b].status = "processing"
        /\ progressStore[b].startedAt > progressStore[a].finishedAt
        /\ "raw" \in DOMAIN progressStore[b]

\* C5: the step that makes a job ready comes from processing and leaves
\* percent at exactly 100, whatever percent was stored before.
C5_ReadyPercent100 ==
    [][\A id \in DOMAIN progressStore :
          (progressStore[id].status # "ready"
           /\ progressStore'[id].status = "ready")
          => /\ progressStore[id].status = "processing"
             /\ progressStore'[id].percent = 100]_vars

\* a job of unknown duration became ready after a single progress event
C5_Witness ==
    \E id \in DOMAIN progressStore :
        /\ progressStore[id].status = "ready"
        /\ progressStore[id].percent = 100
        /\ nupload = 1 /\ nprogress = 1
        /\ job[id].file.duration = 0

\* C6: a job whose file has no video and no audio stream, or cannot be
\* probed, goes from queued to error, its encoder is never run and nothing
\* is written into its output directory.
C6_UnusableInputNeverEncoded ==
    \A id \in DOMAIN job :
        Unusable(job[id].file)
        => /\ progressStore[id].status =
                  (IF job[id].probe = "pending" THEN "queued" ELSE "error")
           /\ job[id].runs = 0
           /\ job[id].encoder = "none"
           /\ dashDirs[job[id].outDir] = {}

C6_Witness ==
    \E a, b \in DOMAIN job :
        /\ ~job[a].file.readable
        /\ job[b].file.readable /\ Unusable(job[b].file)
        /\ progressStore[a].status = "error"
        /\ progressStore[b].status = "error"

\* C7: the step that answers an upload with a job id leaves that id in the
\* store with status queued and its probe still pending, and a status
\* query for an id an upload has returned is never answered not-found.
C7_QueuedBeforeResponse ==
    [][nreq' # nreq
       => /\ (response'.kind = "upload" /\ response'.code = 200)
             => /\ response'.id \in DOMAIN progressStore'
                /\ progressStore'[response'.id].status = "queued"
                /\ job'[response'.id].probe = "pending"
          /\ (response'.kind = "status" /\ response'.id \in Issued')
             => /\ response'.code = 200
                /\ response'.body = progressStore'[response'.id]]_vars

C7_Witness ==
    /\ response.kind = "upload" /\ response.code = 200
    /\ progressStore[response.id].status = "queued"
    /\ job[response.id].probe = "pending"

\* C8: a status query is answered not-found exactly when its id was never
\* returned by an upload.
C8_NotFoundIffNeverIssued ==
    response.kind = "status"
    => (response.code = 404 <=> response.id \notin Issued)

\* C9: an upload request without a file is answered 400 and changes
\* nothing: no id, no record, no output directory, no probe.
C9_NoFileNoEffect ==
    [][(nreq' # nreq /\ response'.kind = "upload" /\ ~response'.hasFile)
       => /\ response'.code = 400
          /\ UNCHANGED <<progressStore, job, uploads, dashDirs, unlinked,
                         nupload, nprogress, clock>>]_vars

C9_Witness ==
    /\ response.kind = "upload" /\ ~response.hasFile /\ response.code = 400
    /\ nupload = 1 /\ nreq = 2

\* C10: every upload gets an id and an output directory of its own, a job
\* runs its encoder at most once, and a directory is written only by the
\* encoder of the job it belongs to.
C10_OutputDirsDisjoint ==
    /\ Cardinality(DOMAIN job) = nupload
    /\ \A a, b \in DOMAIN job : a # b => job[a].outDir # job[b].outDir
    /\ \A id \in DOMAIN job : job[id].runs <= 1
    /\ \A d \in DOMAIN dashDirs :
           \A id \in dashDirs[d] : job[id].outDir = d

\* two uploads of the same bytes, both encoded into their directories
C10_Witness ==
    \E a, b \in DOMAIN job :
        /\ a # b
        /\ job[a].file = job[b].file
        /\ dashDirs[job[a].outDir] = {a}
        /\ dashDirs[job[b].outDir] = {b}

\* what a step may change of job id: its record, its uploaded file and the
\* files in its output directory
Footprint(id) ==
    <<progressStore[id], job[id].inputPath \in DOMAIN uploads,
      unlinked[job[id].inputPath], dashDirs[job[id].outDir]>>

\* C11: no step changes the record, the uploaded file or the output
\* directory of more than one job, so an event of one job leaves every
\* other job as it was.
C11_EventsAreLocal ==
    [][\A a, b \in DOMAIN job :
          (a # b /\ Footprint(a)' # Footprint(a))
          => Footprint(b)' = Footprint(b)]_vars

\* two jobs run concurrently: one has ended, the other has made progress
\* and still has its uploaded file
C11_Witness ==
    \E a, b \in DOMAIN job :
        /\ progressStore[a].status = "ready"
        /\ progressStore[b].status = "processing"
        /\ progressStore[b].startedAt < progressStore[a].finishedAt
        /\ "raw" \in DOMAIN progressStore[b]
        /\ job[b].inputPath \in DOMAIN uploads

\* the file has a stream of the type
Carries(file, type) == type \in { file.streams[i] : i \in 1..Len(file.streams) }

\* C12: the adaptation-sets directive of an encoder run is the video entry
\* with id 0 and the audio entry with id 1 separated by one space when both
\* are present, and the single entry of the present type, with no
\* separator, otherwise; it is never empty.
C12_AdaptationSets ==
    \A id \in DOMAIN job :
        job[id].runs > 0
        => job[id].adaptationSets =
              (IF Carries(job[id].file, "video") /\ Carries(job[id].file, "audio")
               THEN "id=0,streams=v id=1,streams=a"
               ELSE IF Carries(job[id].file, "video") THEN "id=0,streams=v"
               ELSE "id=1,streams=a")

\* encoders were run for a file with both types and for an audio-only file
C12_Witness ==
    \E a, b \in DOMAIN job :
        /\ job[a].runs > 0 /\ job[b].runs > 0
        /\ job[a].adaptationSets = "id=0,streams=v id=1,streams=a"
        /\ job[b].adaptationSets = "id=1,streams=a"

\* C13: every percent stored in a job's record is an integer in 0..100.
C13_PercentInRange ==
    \A id \in DOMAIN progressStore :
        "percent" \in DOMAIN progressStore[id]
        => progressStore[id].percent \in 0..100

\* floor(min(100, 100 * elapsed / total)), both times in tenths of a second
PercentOfTime(elapsed, total) ==
    IF elapsed >= total THEN 100 ELSE (100 * elapsed) \div total

\* floor(min(100, value)), the value in tenths
PercentOfValue(value) == IF value >= 1000 THEN 100 ELSE value \div 10

\* the elapsed time of a three-field time marker, in tenths of a second
ElapsedOf(timemark) == timemark[1] * 36000 + timemark[2] * 600 + timemark[3]

\* a progress step stores the percent `expected` yields for the event it
\* delivered (the event is the record's new raw field) and keeps the stored
\* percent when `expected` yields none
StoresPercent(id, expected) ==
    (nprogress' # nprogress /\ progressStore'[id] # progressStore[id])
    => /\ progressStore'[id].status = progressStore[id].status
       /\ progressStore'[id].percent =
              (IF expected = <<>> THEN progressStore[id].percent
               ELSE expected[1])

\* C14 as stated: the time formula when the marker has three fields and the
\* duration is known; otherwise the direct value when there is one;
\* otherwise nothing.
C14_InterpretedPercentAsStated ==
    [][\A id \in DOMAIN progressStore :
          LET ev == progressStore'[id].raw
              d == job[id].duration
          IN  StoresPercent(id,
                 IF "timemark" \in DOMAIN ev /\ Len(ev.timemark) = 3 /\ d # 0
                 THEN <<PercentOfTime(ElapsedOf(ev.timemark), d)>>
                 ELSE IF "percent" \in DOMAIN ev
                      THEN <<PercentOfValue(ev.percent)>>
                      ELSE <<>>)]_vars

\* C14 amended: with a time marker and a known duration the percent is the
\* time formula when the marker has three fields and nothing otherwise,
\* also when the event carries a direct value; without a time marker or
\* without a known duration it is the direct value when there is one and
\* nothing otherwise.
C14_InterpretedPercent ==
    [][\A id \in DOMAIN progressStore :
          LET ev == progressStore'[id].raw
              d == job[id].duration
          IN  StoresPercent(id,
                 IF "timemark" \in DOMAIN ev /\ d # 0
                 THEN IF Len(ev.timemark) = 3
                      THEN <<PercentOfTime(ElapsedOf(ev.timemark), d)>>
                      ELSE <<>>
                 ELSE IF "percent" \in DOMAIN ev
                      THEN <<PercentOfValue(ev.percent)>>
                      ELSE <<>>)]_vars

\* a job of known duration got a two-field marker together with a direct
\* value, and another job got a three-field marker that gave 61
C14_Witness ==
    \E a, b \in DOMAIN progressStore :
        /\ job[a].duration # 0
        /\ "raw" \in DOMAIN progressStore[a]
        /\ progressStore[a].raw = [timemark |-> <<0, 50>>, percent |-> 700]
        /\ progressStore[a].percent = 0
        /\ "raw" \in DOMAIN progressStore[b]
        /\ progressStore[b].percent = 61

\* the event has a time marker that does not have exactly three fields
Malformed(ev) == "timemark" \in DOMAIN ev /\ Len(ev.timemark) # 3

\* the event has neither a time marker nor a direct percent value
Uninformative(ev) == "timemark" \notin DOMAIN ev /\ "percent" \notin DOMAIN ev

\* the progress step of job id keeps the stored percent and the status
KeepsPercentAndStatus(id) ==
    /\ progressStore'[id].status = progressStore[id].status
    /\ progressStore'[id].percent = progressStore[id].percent

\* C15 as stated: an event without marker and direct value, or with a
\* marker that does not have three fields, leaves percent and status alone.
C15_MalformedIgnoredAsStated ==
    [][\A id \in DOMAIN progressStore :
          (nprogress' # nprogress /\ progressStore'[id] # progressStore[id])
          => LET ev == progressStore'[id].raw
             IN  (Uninformative(ev) \/ Malformed(ev))
                 => KeepsPercentAndStatus(id)]_vars

\* C15 amended: an event without marker and direct value, or with a marker
\* that does not have three fields and either a known total duration or no
\* direct value, leaves percent and status alone; no progress event makes
\* the job an error.
C15_MalformedIgnored ==
    [][\A id \in DOMAIN progressStore :
          (nprogress' # nprogress /\ progressStore'[id] # progressStore[id])
          => LET ev == progressStore'[id].raw
             IN  /\ progressStore'[id].status # "error"
                 /\ (\/ Uninformative(ev)
                     \/ /\ Malformed(ev)
                        /\ job[id].duration # 0 \/ "percent" \notin DOMAIN ev)
                    => KeepsPercentAndStatus(id)]_vars

\* a job of known duration that stood at 61 percent got a two-field marker
C15_Witness ==
    \E id \in DOMAIN progressStore :
        /\ progressStore[id].status = "processing"
        /\ "raw" \in DOMAIN progressStore[id]
        /\ Malformed(progressStore[id].raw)
        /\ job[id].duration # 0
        /\ progressStore[id].percent = 61

\* C16: a job becomes processing only from queued, in the step in which its
\* probe result arrives, when the file could be probed and has a video or
\* an audio stream, and with percent 0; an encoder is started only in such
\* a step.
C16_EntersProcessing ==
    [][\A id \in DOMAIN progressStore :
          /\ (progressStore[id].status # "processing"
              /\ progressStore'[id].status = "processing")
             => /\ progressStore[id].status = "queued"
                /\ job[id].probe = "pending" /\ job'[id].probe = "done"
                /\ job[id].file.readable
                /\ Carries(job[id].file, "video") \/ Carries(job[id].file, "audio")
                /\ "percent" \in DOMAIN progressStore'[id]
                /\ progressStore'[id].percent = 0
          /\ (job'[id].runs # job[id].runs
              \/ (job[id].encoder = "none" /\ job'[id].encoder # "none"))
             => /\ progressStore[id].status = "queued"
                /\ progressStore'[id].status = "processing"]_vars

\* a video-only job is processing with its encoder running
C16_Witness ==
    \E id \in DOMAIN progressStore :
        /\ progressStore[id].status = "processing"
        /\ progressStore[id].percent = 0
        /\ job[id].encoder = "running"
        /\ ~Carries(job[id].file, "audio")

\* C17: a record has an error field exactly when its status is error.
C17_ErrorFieldIffError ==
    \A id \in DOMAIN progressStore :
        "error" \in DOMAIN progressStore[id]
        <=> progressStore[id].status = "error"

\* one job failed in the encoder and another in the ffprobe callback
C17_Witness ==
    \E a, b \in DOMAIN progressStore :
        /\ progressStore[a].status = "error"
        /\ progressStore[a].error \in ErrorMessages
        /\ progressStore[b].status = "error"
        /\ progressStore[b].error \notin ErrorMessages

\* C18: a timestamp once set stays in the record: a processing record
\* carries createdAt and startedAt, a ready record carries createdAt,
\* startedAt and finishedAt, in that order.
C18_TimestampsKept ==
    \A id \in DOMAIN progressStore :
        LET rec == progressStore[id]
        IN  /\ rec.status = "processing"
               => /\ {"createdAt", "startedAt"} \subseteq DOMAIN rec
                  /\ rec.createdAt <= rec.startedAt
            /\ rec.status = "ready"
               => /\ {"createdAt", "startedAt", "finishedAt"} \subseteq DOMAIN rec
                  /\ rec.createdAt <= rec.startedAt
                  /\ rec.startedAt <= rec.finishedAt

\* C19: when every probe and every encoder delivers its result, every job
\* in the store eventually is ready or error.
C19_EventuallyTerminal ==
    \A id \in UUIDs :
        (id \in DOMAIN progressStore)
        ~> (id \in DOMAIN progressStore
            /\ progressStore[id].status \in Terminal)

\* both jobs have reached a terminal state, one of them through its encoder
C19_Witness ==
    /\ nupload = MaxJobs
    /\ \A id \in DOMAIN progressStore : progressStore[id].status \in Terminal
    /\ \E id \in DOMAIN job : job[id].encoder = "done"

\* C20: the uploaded file of a queued or processing job exists, and a step
\* that removes a job's file is the step that makes the job ready or error.
C20_FileKeptWhileActive ==
    [][\A id \in DOMAIN job' :
          /\ progressStore'[id].status \in {"queued", "processing"}
             => job'[id].inputPath \in DOMAIN uploads'
          /\ (id \in DOMAIN job
              /\ job[id].inputPath \in DOMAIN uploads
              /\ job[id].inputPath \notin DOMAIN uploads')
             => /\ progressStore[id].status \in {"queued", "processing"}
                /\ progressStore'[id].status \in Terminal]_vars

\* one job has ended and lost its file while another, which has reported
\* progress, is still processing and has its file
C20_Witness ==
    \E a, b \in DOMAIN job :
        /\ progressStore[a].status \in Terminal
        /\ job[a].inputPath \notin DOMAIN uploads
        /\ progressStore[b].status = "processing"
        /\ "raw" \in DOMAIN progressStore[b]
        /\ job[b].inputPath \in DOMAIN uploads

====
